---------------------------- MODULE Spec2Model ----------------------------
(***************************************************************************)
(* SLURMEnvironment (pytorch_lightning/plugins/environments/               *)
(* slurm_environment.py): the rendezvous address, port and rank lookups    *)
(* over the process environment (os.environ).                              *)
(*                                                                         *)
(* A Python str is a sequence of one-character strings.  os.environ is a   *)
(* function from the variable names to [set, val]: set says whether the    *)
(* key is in os.environ, val is its text (<<>> when it is not set).        *)
(***************************************************************************)
EXTENDS Integers, Sequences, FiniteSets, TLC

VARIABLES
    env,        \* os.environ
    root_node,  \* the argument a caller passes to resolve_root_node_address
    op,         \* the last step: a method of SLURMEnvironment, or "environ"
    ret,        \* what that call returned or raised
    resolved    \* what master_port last returned (NoneRet before that)

vars == <<env, root_node, op, ret, resolved>>

-----------------------------------------------------------------------------
(* Bounds of the model *)

MaxJobLen == 4
MaxPortLen == 3
MaxNodeLen == 3

-----------------------------------------------------------------------------
(* Python strings *)

Digits == <<"0", "1", "2", "3", "4", "5", "6", "7", "8", "9">>

IsDigit(c) == \E i \in 1..10 : Digits[i] = c

DigitVal(c) == (CHOOSE i \in 1..10 : Digits[i] = c) - 1

\* str.isspace() for the characters int() and str.strip() drop
IsSpace(c) == c \in {" ", "\t", "\n"}

Contains(s, c) == \E i \in 1..Len(s) : s[i] = c

Find(s, c) == CHOOSE i \in 1..Len(s) : s[i] = c /\ \A j \in 1..(i - 1) : s[j] # c

RECURSIVE Split(_, _, _)
\* s.split(sep, maxsplit) for a one-character sep; maxsplit = -1: no limit
Split(s, sep, maxsplit) ==
    IF maxsplit = 0 \/ ~Contains(s, sep)
    THEN <<s>>
    ELSE LET i == Find(s, sep)
         IN  <<SubSeq(s, 1, i - 1)>> \o Split(SubSeq(s, i + 1, Len(s)), sep, maxsplit - 1)

\* s[:4]
Last4_first(s) == SubSeq(s, 1, IF Len(s) > 4 THEN 4 ELSE Len(s))

\* s, not sliced
Last4_whole(s) == s

\* s[-4:]
Last4(s) == SubSeq(s, IF Len(s) > 4 THEN Len(s) - 3 ELSE 1, Len(s))

RECURSIVE Strip(_)
\* s.strip()
Strip(s) ==
    IF s = <<>> THEN s
    ELSE IF IsSpace(Head(s)) THEN Strip(Tail(s))
    ELSE IF IsSpace(s[Len(s)]) THEN Strip(SubSeq(s, 1, Len(s) - 1))
    ELSE s

RECURSIVE DigitsValue(_, _)
\* the value of a digit string with its underscores skipped
DigitsValue(s, acc) ==
    IF s = <<>> THEN acc
    ELSE IF Head(s) = "_" THEN DigitsValue(Tail(s), acc)
    ELSE DigitsValue(Tail(s), 10 * acc + DigitVal(Head(s)))

\* the body of an integer literal: digits, single underscores between digits
IsIntBody(s) ==
    /\ s # <<>>
    /\ \A i \in 1..Len(s) : IsDigit(s[i]) \/ s[i] = "_"
    /\ IsDigit(s[1])
    /\ IsDigit(s[Len(s)])
    /\ \A i \in 1..(Len(s) - 1) : ~(s[i] = "_" /\ s[i + 1] = "_")

\* int(s) for a str: [ok |-> TRUE, val |-> n], or ok = FALSE for ValueError
PyInt(s) ==
    LET t == Strip(s)
        signed == t # <<>> /\ Head(t) \in {"+", "-"}
        body == IF signed THEN Tail(t) ELSE t
    IN  IF IsIntBody(body)
        THEN [ok |-> TRUE,
              val |-> IF signed /\ Head(t) = "-"
                      THEN 0 - DigitsValue(body, 0)
                      ELSE DigitsValue(body, 0)]
        ELSE [ok |-> FALSE, val |-> 0]

RECURSIVE NatToStr(_)
NatToStr(n) ==
    IF n < 10 THEN <<Digits[n + 1]>>
    ELSE NatToStr(n \div 10) \o <<Digits[(n % 10) + 1]>>

\* str(n) for an int
IntToStr(n) == IF n < 0 THEN <<"-">> \o NatToStr(0 - n) ELSE NatToStr(n)

\* re.sub("[^0-9]", "", s)
StripNonDigits(s) == SelectSeq(s, IsDigit)

-----------------------------------------------------------------------------
(* Results of a call *)

\* kind: the type returned or the exception raised; val: an int or bool result;
\* text: a str result, or the literal a ValueError quotes; key: the key a
\* KeyError names
IntRet(n) == [kind |-> "int", val |-> n, text |-> <<>>, key |-> ""]
StrRet(s) == [kind |-> "str", val |-> 0, text |-> s, key |-> ""]
BoolRet(b) == [kind |-> "bool", val |-> IF b THEN 1 ELSE 0, text |-> <<>>, key |-> ""]
NoneRet == [kind |-> "None", val |-> 0, text |-> <<>>, key |-> ""]
\* KeyError: 'name'
KeyError(name) == [kind |-> "KeyError", val |-> 0, text |-> <<>>, key |-> name]
\* ValueError: invalid literal for int() with base 10: 's'
ValueError(s) == [kind |-> "ValueError", val |-> 0, text |-> s, key |-> ""]

Raised(r) == r.kind \in {"KeyError", "ValueError"}

-----------------------------------------------------------------------------
(* os.environ *)

Names == {"SLURM_NODELIST", "SLURM_JOB_ID", "MASTER_PORT", "MASTER_ADDR",
          "SLURM_NTASKS", "SLURM_PROCID", "SLURM_LOCALID", "SLURM_NODEID"}

Unset == [set |-> FALSE, val |-> <<>>]
Value(s) == [set |-> TRUE, val |-> s]

\* name in os.environ
In(e, name) == e[name].set

\* os.environ[name] = s
Put(e, name, s) == [e EXCEPT ![name] = Value(s)]

\* the truth value of os.environ.get(name): set and not ""
Truthy(e, name) == e[name].set /\ e[name].val # <<>>

Loopback == <<"1", "2", "7", ".", "0", ".", "0", ".", "1">>

PortOffset == 15000
DefaultPort == 12910

-----------------------------------------------------------------------------
(* SLURMEnvironment *)

creates_children == BoolRet(TRUE)

\* without lines 92-93: the range is not cut at "-"
resolve_root_node_address_whole_range(s) ==
    IF Contains(s, "[")
    THEN LET parts == Split(s, "[", 1)
             first == Split(parts[2], ",", 1)[1]
         IN  parts[1] \o StripNonDigits(first)
    ELSE s

resolve_root_node_address(s) ==
    IF Contains(s, "[")
    THEN LET parts == Split(s, "[", 1)
             name == parts[1]
             numbers == parts[2]
             first == Split(numbers, ",", 1)[1]
             number == IF Contains(first, "-") THEN Split(first, "-", -1)[1] ELSE first
         IN  name \o StripNonDigits(number)
    ELSE s

\* line 34 without .split(",")[0]
nodelist_root_no_comma(e) ==
    IF Truthy(e, "SLURM_NODELIST")
    THEN Split(e["SLURM_NODELIST"].val, " ", -1)[1]
    ELSE Loopback

\* lines 32-36: the root node before it is resolved
nodelist_root(e) ==
    IF Truthy(e, "SLURM_NODELIST")
    THEN Split(Split(e["SLURM_NODELIST"].val, " ", -1)[1], ",", -1)[1]
    ELSE Loopback

master_address_ret(e) == StrRet(resolve_root_node_address(nodelist_root(e)))

master_address_env(e) == Put(e, "MASTER_ADDR", resolve_root_node_address(nodelist_root(e)))

\* lines 48-55: default_port from SLURM_JOB_ID, or the ValueError of int()
job_port(e) ==
    IF Truthy(e, "SLURM_JOB_ID")
    THEN LET tail == Last4(e["SLURM_JOB_ID"].val)
         IN  IF PyInt(tail).ok THEN IntRet(PyInt(tail).val + PortOffset) ELSE ValueError(tail)
    ELSE IntRet(DefaultPort)

\* lines 61-68 once default_port is an int
port_ret(e, default_port) ==
    IF In(e, "MASTER_PORT")
    THEN LET text == e["MASTER_PORT"].val
         IN  IF PyInt(text).ok THEN IntRet(PyInt(text).val) ELSE ValueError(text)
    ELSE IntRet(default_port)

port_env(e, default_port) ==
    IF In(e, "MASTER_PORT") THEN e ELSE Put(e, "MASTER_PORT", IntToStr(default_port))

master_port_ret(e) ==
    IF Raised(job_port(e)) THEN job_port(e) ELSE port_ret(e, job_port(e).val)

master_port_env(e) ==
    IF Raised(job_port(e)) THEN e ELSE port_env(e, job_port(e).val)

\* int(os.environ.get(name, "0"))
int_environ_default(e, name) ==
    IF ~In(e, name) THEN IntRet(0)
    ELSE IF PyInt(e[name].val).ok THEN IntRet(PyInt(e[name].val).val)
    ELSE ValueError(e[name].val)

\* int(os.environ[name])
int_environ(e, name) ==
    IF ~In(e, name) THEN KeyError(name)
    ELSE IF PyInt(e[name].val).ok THEN IntRet(PyInt(e[name].val).val)
    ELSE ValueError(e[name].val)

world_size_ret(e) == int_environ(e, "SLURM_NTASKS")

\* reads the local rank's variable
global_rank_ret_localid(e) == int_environ(e, "SLURM_LOCALID")

global_rank_ret(e) == int_environ(e, "SLURM_PROCID")
local_rank_ret(e) == int_environ(e, "SLURM_LOCALID")
node_rank_ret(e) == int_environ(e, "SLURM_NODEID")

\* os.environ["SLURM_NTASKS"] = str(size)
set_world_size_env_writes(e, size) == Put(e, "SLURM_NTASKS", IntToStr(size))

\* the setters only log
set_world_size_env(e, size) == e
set_global_rank_env(e, rank) == e

-----------------------------------------------------------------------------
(* The environments and arguments the model starts from *)

\* every string of at most n characters of chars
Strings(chars, n) == UNION {[1..k -> chars] : k \in 0..n}

Optional(S) == {Unset} \cup {Value(s) : s \in S}

JobChars == {"0", "7", "a", "-"}
PortChars == {"0", "7", "-", " ", "a"}
NodeChars == {"n", "5", "[", "]", ",", "-", " "}

JobIds ==
    Strings(JobChars, MaxJobLen)
        \cup {<<"1", "2", "3", "4", "5", "6", "7", "8", "9">>,
              <<"7", "0", "0", "0", "7">>, <<"a", "0", "0", "0", "7">>,
              <<"7", "0", "0", "0", "a">>, <<"7", "-", "7", "0", "0">>}

Ports ==
    Strings(PortChars, MaxPortLen)
        \cup {<<"6", "0", "0", "0">>, <<"6", "5", "5", "3", "5">>,
              <<"6", "5", "5", "3", "6">>, <<"7", "0", "0", "0", "0">>,
              <<"7", "_", "0">>, <<"_", "7">>, <<"+", "7">>}

NodeLists ==
    Strings(NodeChars, MaxNodeLen)
        \cup {<<"n", "o", "d", "e", "0", "1">>,
              <<"n", "o", "d", "e", "[", "0", "5", "-", "0", "7", "]">>,
              <<"n", "o", "d", "e", "[", "5", ",", "9", ",", "1", "2", "]">>,
              <<"n", "o", "d", "e", "[", "0", "5", "-", "0", "7", ",", "0", "9", "]">>,
              <<"a", "[", "1", "-", "2", "]", ",", "b", "3", " ", "c", "4">>}

Ranks == {<<>>, <<"0">>, <<"1">>, <<"2">>, <<"4">>, <<"-", "1">>, <<" ", "3">>, <<"a">>}

\* what other code of the process may leave in SLURM_JOB_ID
JobIdChanges == {Unset, Value(<<"7">>), Value(<<"a">>)}

\* the arguments of the setters
Sizes == {0, 8}

Node01 == <<"n", "o", "d", "e", "0", "1">>

\* a job of 4 tasks, this one the third, and nothing else set
PlainEnv ==
    [name \in Names |->
        CASE name = "SLURM_NTASKS" -> Value(<<"4">>)
          [] name = "SLURM_PROCID" -> Value(<<"2">>)
          [] name = "SLURM_LOCALID" -> Value(<<"0">>)
          [] name = "SLURM_NODEID" -> Value(<<"1">>)
          [] OTHER -> Unset]

InitPort ==
    /\ \/ \E job \in Optional(JobIds),
              port \in {Unset, Value(<<"6", "0", "0", "0">>)} :
              env = [PlainEnv EXCEPT !["SLURM_JOB_ID"] = job, !["MASTER_PORT"] = port]
       \/ \E job \in {Unset, Value(<<"7">>), Value(<<"a">>)},
              port \in Optional(Ports) :
              env = [PlainEnv EXCEPT !["SLURM_JOB_ID"] = job, !["MASTER_PORT"] = port]
    /\ root_node = Node01

InitAddress ==
    \/ /\ \E nodes \in Optional(NodeLists) : env = [PlainEnv EXCEPT !["SLURM_NODELIST"] = nodes]
       /\ root_node = Node01
    \/ /\ env = PlainEnv
       /\ root_node \in NodeLists

InitIdentity ==
    /\ \E ntasks \in Optional(Ranks), procid \in Optional(Ranks),
          localid \in Optional({<<"0">>, <<"a">>}),
          nodeid \in Optional({<<"1">>, <<>>}) :
          env = [PlainEnv EXCEPT !["SLURM_NTASKS"] = ntasks, !["SLURM_PROCID"] = procid,
                                 !["SLURM_LOCALID"] = localid, !["SLURM_NODEID"] = nodeid]
    /\ root_node = Node01

\* nothing has been called yet
Fresh ==
    /\ op = "init"
    /\ ret = NoneRet
    /\ resolved = NoneRet

Init == (InitPort \/ InitAddress \/ InitIdentity) /\ Fresh

PortInit == InitPort /\ Fresh
AddressInit == InitAddress /\ Fresh
IdentityInit == InitIdentity /\ Fresh

-----------------------------------------------------------------------------
(* One action per method *)

Called(name, r, e) ==
    /\ op' = name
    /\ ret' = r
    /\ env' = e
    /\ UNCHANGED root_node

CreatesChildren ==
    /\ Called("creates_children", creates_children, env)
    /\ UNCHANGED resolved

MasterAddress ==
    /\ Called("master_address", master_address_ret(env), master_address_env(env))
    /\ UNCHANGED resolved

MasterPort ==
    /\ Called("master_port", master_port_ret(env), master_port_env(env))
    /\ resolved' = IF Raised(master_port_ret(env)) THEN resolved ELSE master_port_ret(env)

WorldSize ==
    /\ Called("world_size", world_size_ret(env), env)
    /\ UNCHANGED resolved

SetWorldSize ==
    /\ \E size \in Sizes : Called("set_world_size", NoneRet, set_world_size_env(env, size))
    /\ UNCHANGED resolved

GlobalRank ==
    /\ Called("global_rank", global_rank_ret(env), env)
    /\ UNCHANGED resolved

SetGlobalRank ==
    /\ \E rank \in Sizes : Called("set_global_rank", NoneRet, set_global_rank_env(env, rank))
    /\ UNCHANGED resolved

LocalRank ==
    /\ Called("local_rank", local_rank_ret(env), env)
    /\ UNCHANGED resolved

NodeRank ==
    /\ Called("node_rank", node_rank_ret(env), env)
    /\ UNCHANGED resolved

ResolveRootNodeAddress ==
    /\ Called("resolve_root_node_address", StrRet(resolve_root_node_address(root_node)), env)
    /\ UNCHANGED resolved

\* os.environ is the live process environment: between two calls other code
\* of the process may set or delete SLURM_JOB_ID
EnvironJobId ==
    /\ \E job \in JobIdChanges :
          /\ job # env["SLURM_JOB_ID"]
          /\ env' = [env EXCEPT !["SLURM_JOB_ID"] = job]
    /\ op' = "environ"
    /\ ret' = NoneRet
    /\ UNCHANGED <<root_node, resolved>>

Calls ==
    \/ CreatesChildren
    \/ MasterAddress
    \/ MasterPort
    \/ WorldSize
    \/ SetWorldSize
    \/ GlobalRank
    \/ SetGlobalRank
    \/ LocalRank
    \/ NodeRank
    \/ ResolveRootNodeAddress

Next == Calls \/ EnvironJobId

Spec == Init /\ [][Next]_vars

\* The method calls alone, from the environments that vary what each group of
\* methods reads
SpecPort == PortInit /\ [][Calls]_vars
SpecAddress == AddressInit /\ [][Calls]_vars
SpecIdentity == IdentityInit /\ [][Calls]_vars

\* The calls and the changes of SLURM_JOB_ID between them
SpecEnviron == PortInit /\ [][Next]_vars

-----------------------------------------------------------------------------
(* What the properties below are stated with *)

Least(S) == CHOOSE x \in S : \A y \in S : x <= y

Places(s, c) == {i \in 1..Len(s) : s[i] = c}

\* the text before the first c of s; all of s when it holds no c
Before(s, c) == IF Places(s, c) = {} THEN s ELSE SubSeq(s, 1, Least(Places(s, c)) - 1)

\* the text after the first c of s
After(s, c) == SubSeq(s, Least(Places(s, c)) + 1, Len(s))

IsDecimal(c) == c \in {"0", "1", "2", "3", "4", "5", "6", "7", "8", "9"}

OnlyDigits(s) == SelectSeq(s, IsDecimal)

\* the last 4 characters of s, all of s when it has fewer
Suffix4(s) ==
    LET k == IF Len(s) < 4 THEN Len(s) ELSE 4
    IN  [i \in 1..k |-> s[Len(s) - k + i]]

\* the first whitespace-separated token of s, "" when s has none
FirstToken(s) ==
    LET solid == {i \in 1..Len(s) : ~IsSpace(s[i])}
    IN  IF solid = {} THEN <<>>
        ELSE LET a == Least(solid)
                 gaps == {j \in a..Len(s) : IsSpace(s[j])}
             IN  SubSeq(s, a, IF gaps = {} THEN Len(s) ELSE Least(gaps) - 1)

SchedulerNames == {"SLURM_NODELIST", "SLURM_JOB_ID", "SLURM_NTASKS", "SLURM_PROCID",
                   "SLURM_LOCALID", "SLURM_NODEID"}

Accessors == {"world_size", "global_rank", "local_rank", "node_rank"}

AccessorName(o) ==
    CASE o = "world_size" -> "SLURM_NTASKS"
      [] o = "global_rank" -> "SLURM_PROCID"
      [] o = "local_rank" -> "SLURM_LOCALID"
      [] o = "node_rank" -> "SLURM_NODEID"

\* the four lookups all return an int in environment e
IdentityResolves(e) ==
    /\ world_size_ret(e).kind = "int"
    /\ global_rank_ret(e).kind = "int"
    /\ local_rank_ret(e).kind = "int"
    /\ node_rank_ret(e).kind = "int"

-----------------------------------------------------------------------------
(* C1 *)

\* C1: a master_port call made while MASTER_PORT is set (to an integer)
\* returns that integer, whatever SLURM_JOB_ID holds.
C1_OverrideWins ==
    [][(op' = "master_port" /\ In(env, "MASTER_PORT") /\ PyInt(env["MASTER_PORT"].val).ok)
          => ret' = IntRet(PyInt(env["MASTER_PORT"].val).val)]_vars

-----------------------------------------------------------------------------
(* C2 *)

\* C2 as stated: with MASTER_PORT not set, whatever master_port returns when
\* SLURM_JOB_ID is set is 15000 plus the integer of its last 4 characters, and
\* 12910 when SLURM_JOB_ID is not set.
C2_Stated ==
    [][(op' = "master_port" /\ ~In(env, "MASTER_PORT") /\ ret'.kind = "int")
          => IF In(env, "SLURM_JOB_ID")
             THEN /\ PyInt(Suffix4(env["SLURM_JOB_ID"].val)).ok
                  /\ ret'.val = 15000 + PyInt(Suffix4(env["SLURM_JOB_ID"].val)).val
             ELSE ret'.val = 12910]_vars

\* C2 amended: with MASTER_PORT not set, master_port returns 15000 plus the
\* integer of the last 4 characters of SLURM_JOB_ID when SLURM_JOB_ID is set, not
\* empty, and those characters are an integer; it returns 12910 when
\* SLURM_JOB_ID is not set or is empty.
C2_DerivedPort ==
    [][(op' = "master_port" /\ ~In(env, "MASTER_PORT"))
          => LET job == env["SLURM_JOB_ID"]
             IN  /\ (job.set /\ job.val # <<>> /\ PyInt(Suffix4(job.val)).ok)
                        => ret' = IntRet(15000 + PyInt(Suffix4(job.val)).val)
                 /\ (~job.set \/ job.val = <<>>) => ret' = IntRet(12910)]_vars

\* SLURM_JOB_ID=123456789 and no MASTER_PORT: master_port returned 21789
C2_Witness ==
    /\ op = "master_port"
    /\ env["SLURM_JOB_ID"] = Value(<<"1", "2", "3", "4", "5", "6", "7", "8", "9">>)
    /\ env["MASTER_PORT"] = Value(<<"2", "1", "7", "8", "9">>)
    /\ ret = IntRet(21789)

-----------------------------------------------------------------------------
(* C3 *)

\* the root the claim describes: the digits of the lower bound of the first
\* comma-separated token of the text between "[" and the "]" that closes it
StatedRoot(s) ==
    IF Places(s, "[") = {} THEN s
    ELSE Before(s, "[") \o OnlyDigits(Before(Before(Before(After(s, "["), "]"), ","), "-"))

\* the same without the cut at "]"
TokenRoot(s) ==
    IF Places(s, "[") = {} THEN s
    ELSE Before(s, "[") \o OnlyDigits(Before(Before(After(s, "["), ","), "-"))

\* C3 as stated: resolve_root_node_address returns an input without "["
\* unchanged, and otherwise the prefix before the first "[" followed by the
\* digits of the lower bound of the first comma-separated token of the text
\* between "[" and its "]"; text after the "]" never contributes.
C3_Stated == op = "resolve_root_node_address" => ret = StrRet(StatedRoot(root_node))

\* C3 amended: resolve_root_node_address returns an input without "["
\* unchanged, and otherwise the prefix before the first "[" followed by every
\* digit of the part before the first "-" of the first comma-separated token
\* of all the text after that "["; "]" is not looked for, so digits after a
\* "]" in that part are kept.
C3_TokenRoot == op = "resolve_root_node_address" => ret = StrRet(TokenRoot(root_node))

\* node[05-07,09] resolved to node05
C3_Witness ==
    /\ op = "resolve_root_node_address"
    /\ root_node = <<"n", "o", "d", "e", "[", "0", "5", "-", "0", "7", ",", "0", "9", "]">>
    /\ ret = StrRet(<<"n", "o", "d", "e", "0", "5">>)

-----------------------------------------------------------------------------
(* C4 *)

\* C4 as stated: master_address returns 127.0.0.1 when SLURM_NODELIST is not
\* set, and otherwise resolve_root_node_address of the first comma-separated
\* sub-token of the first whitespace-separated token of SLURM_NODELIST.
C4_Stated ==
    op = "master_address"
        => ret = StrRet(IF In(env, "SLURM_NODELIST")
                        THEN resolve_root_node_address(
                                 Before(FirstToken(env["SLURM_NODELIST"].val), ","))
                        ELSE Loopback)

\* C4 amended: master_address returns 127.0.0.1 when SLURM_NODELIST is not set
\* or is empty, and otherwise resolve_root_node_address of the text before the
\* first "," of the text before the first space of SLURM_NODELIST (which is
\* empty when SLURM_NODELIST starts with a space).
C4_FirstField ==
    op = "master_address"
        => ret = StrRet(IF In(env, "SLURM_NODELIST") /\ env["SLURM_NODELIST"].val # <<>>
                        THEN resolve_root_node_address(
                                 Before(Before(env["SLURM_NODELIST"].val, " "), ","))
                        ELSE Loopback)

\* SLURM_NODELIST="a[1-2],b3 c4": master_address returned a1
C4_Witness ==
    /\ op = "master_address"
    /\ env["SLURM_NODELIST"]
           = Value(<<"a", "[", "1", "-", "2", "]", ",", "b", "3", " ", "c", "4">>)
    /\ ret = StrRet(<<"a", "1">>)

-----------------------------------------------------------------------------
(* C5 *)

\* C5: master_address and master_port return a value, whatever the
\* environment holds; neither ends in an error.
C5_NeverFails == op \in {"master_address", "master_port"} => ~Raised(ret)

-----------------------------------------------------------------------------
(* C6 *)

\* C6 as stated: when the four lookups succeed, the global rank is below the
\* world size, the three ranks are not negative and the world size is
\* positive.
C6_Stated ==
    (op = "global_rank" /\ IdentityResolves(env))
        => /\ ret.val < world_size_ret(env).val
           /\ ret.val >= 0
           /\ local_rank_ret(env).val >= 0
           /\ node_rank_ret(env).val >= 0
           /\ world_size_ret(env).val > 0

\* C6 amended: when the four lookups succeed, each returns the integer
\* written in its own variable (NTASKS, PROCID, LOCALID, NODEID), unchecked:
\* the global rank is below the world size exactly when PROCID is below
\* NTASKS in the environment.
C6_AsWritten ==
    /\ (op \in Accessors /\ ret.kind = "int")
           => ret.val = PyInt(env[AccessorName(op)].val).val
    /\ (op = "global_rank" /\ IdentityResolves(env))
           => ((ret.val < world_size_ret(env).val)
                   <=> (PyInt(env["SLURM_PROCID"].val).val
                            < PyInt(env["SLURM_NTASKS"].val).val))

\* the four lookups succeed and the global rank is not below the world size
C6_Witness ==
    /\ op = "global_rank"
    /\ IdentityResolves(env)
    /\ ret.val >= world_size_ret(env).val

-----------------------------------------------------------------------------
(* C7 *)

\* C7 as stated: a lookup whose variable is missing or not an integer ends
\* in an error that names the variable.
C7_Stated ==
    (op \in Accessors
        /\ (~In(env, AccessorName(op)) \/ ~PyInt(env[AccessorName(op)].val).ok))
        => (Raised(ret) /\ ret.key = AccessorName(op))

\* C7 amended: a lookup whose variable is missing raises a KeyError naming
\* the variable; one whose variable is not an integer raises a ValueError
\* that quotes the value and does not name the variable; neither returns a
\* default.
C7_Raises ==
    op \in Accessors
        => LET name == AccessorName(op)
           IN  /\ ~In(env, name) => ret = KeyError(name)
               /\ (In(env, name) /\ ~PyInt(env[name].val).ok)
                      => ret = ValueError(env[name].val)

\* world_size raised a ValueError for SLURM_NTASKS=a
C7_Witness ==
    /\ op = "world_size"
    /\ env["SLURM_NTASKS"] = Value(<<"a">>)
    /\ ret.kind = "ValueError"

-----------------------------------------------------------------------------
(* C8 *)

\* C8: set_world_size and set_global_rank return None for every argument and
\* leave os.environ, and so what world_size, global_rank, local_rank and
\* node_rank return, as they were.
C8_SettersIgnored ==
    [][op' \in {"set_world_size", "set_global_rank"}
          => /\ ret' = NoneRet
             /\ env' = env
             /\ world_size_ret(env') = world_size_ret(env)
             /\ global_rank_ret(env') = global_rank_ret(env)
             /\ local_rank_ret(env') = local_rank_ret(env)
             /\ node_rank_ret(env') = node_rank_ret(env)]_vars

\* set_world_size was called on a job whose world size is 4
C8_Witness ==
    /\ op = "set_world_size"
    /\ world_size_ret(env) = IntRet(4)
    /\ global_rank_ret(env).kind = "int"

-----------------------------------------------------------------------------
(* C9 *)

\* C9: after master_port returns a port, MASTER_PORT holds a text of that
\* port; a MASTER_PORT already set is never overwritten; every later
\* master_port call returns the same port, also after SLURM_JOB_ID was changed
\* or removed; and no call changes a variable of the scheduler.
C9_PublishedAndSticky ==
    [][/\ (op' = "master_port" /\ ret'.kind = "int")
              => /\ In(env', "MASTER_PORT")
                 /\ PyInt(env'["MASTER_PORT"].val) = [ok |-> TRUE, val |-> ret'.val]
       /\ In(env, "MASTER_PORT") => env'["MASTER_PORT"] = env["MASTER_PORT"]
       /\ (op' = "master_port" /\ resolved.kind = "int") => ret' = resolved
       /\ op' # "environ" => \A name \in SchedulerNames : env'[name] = env[name]]_vars

-----------------------------------------------------------------------------
(* C10 *)

\* C10 as stated: every port master_port returns is in 0..65535.
C10_Stated == (op = "master_port" /\ ret.kind = "int") => ret.val \in 0..65535

\* C10 amended: every port master_port returns when MASTER_PORT is not set
\* (derived from SLURM_JOB_ID, or the default) is in 0..65535; a MASTER_PORT
\* that is set is returned as parsed, without a range check.
C10_DerivedInRange ==
    [][(op' = "master_port" /\ ~In(env, "MASTER_PORT") /\ ret'.kind = "int")
          => ret'.val \in 0..65535]_vars

\* SLURM_JOB_ID=-700 and no MASTER_PORT: master_port returned 14300
C10_Witness ==
    /\ op = "master_port"
    /\ env["SLURM_JOB_ID"] = Value(<<"-", "7", "0", "0">>)
    /\ env["MASTER_PORT"] = Value(<<"1", "4", "3", "0", "0">>)
    /\ ret = IntRet(14300)

=============================================================================
